---- MODULE Spec2Model ----
(***************************************************************************)
(* The teleprompter alignment engine of TuiliRec: the TopPanel component   *)
(* (segmenter, tokenizer, matching effect, debounce timers, manual         *)
(* navigation) together with the App state that feeds it (aiFeature,       *)
(* teleprompterScript, transcript, the settings dialog).                   *)
(*                                                                         *)
(* Strings are sequences of one-character strings.  One action is one      *)
(* browser event (a recognizer callback, a click, a wheel gesture, a timer *)
(* firing) together with the React render and the effects it triggers:     *)
(* JavaScript runs each of them to completion on a single thread.          *)
(***************************************************************************)
EXTENDS Integers, Sequences, FiniteSets

VARIABLES
    aiFeature,                \* App: useState<AiFeature>
    teleprompterScript,       \* App: useState(DEFAULT_SCRIPT)
    transcript,               \* App: useState("")
    showSettings,             \* App: useState(false)
    activeSegmentIndex,       \* TopPanel: useState(0)
    matchedWordCount,         \* TopPanel: useState(0)
    lastTranscriptLengthRef,  \* TopPanel: useRef(0)
    scrollTimeoutRef,         \* TopPanel: useRef(null); 0 is null, else a timer id
    timers,                   \* the live setTimeout timers of the panel
    ev,                       \* history: what the last event did
    run,                      \* scripted runs: the inputs of the run, those still to
                              \* come, the jumps counted, the result of the first run
    svc                       \* the speech services: the fields of aliyunAsr and
                              \* geminiLive, their sockets, sessions, audio
                              \* pipelines and connect() calls in flight

vars == <<aiFeature, teleprompterScript, transcript, showSettings,
          activeSegmentIndex, matchedWordCount, lastTranscriptLengthRef,
          scrollTimeoutRef, timers, ev, run, svc>>

-----------------------------------------------------------------------------
(* Characters *)

UpperChars == {"A", "H", "T"}
LowerChars == {"a", "b", "c", "d", "e", "g", "h", "i", "l", "n", "o", "r", "s", "t", "w"}
DigitChars == {"1"}
AlnumChars == UpperChars \cup LowerChars \cup DigitChars
\* a character outside ASCII is written as its code point: "u4F60" is U+4F60
CJKChars == {"u4F60", "u597D", "u4E16", "u754C", "u4ECA", "u5929", "u6C14", "u5F88"}
TerminalChars == {".", "!", "?", "u3002", "uFF01", "uFF1F"}
WhitespaceChars == {" ", "\n"}

\* String.prototype.toLowerCase, one character
LowerChar(c) == IF c = "A" THEN "a" ELSE IF c = "H" THEN "h" ELSE IF c = "T" THEN "t" ELSE c

toLowerCase(s) == [i \in DOMAIN s |-> LowerChar(s[i])]

Min(a, b) == IF a <= b THEN a ELSE b
Max(a, b) == IF a >= b THEN a ELSE b

\* String.prototype.slice(n) for 0 <= n
Slice(s, n) == IF n >= Len(s) THEN <<>> ELSE SubSeq(s, n + 1, Len(s))

-----------------------------------------------------------------------------
(* Tokenizer: /[a-zA-Z0-9]+|[CJK]/g, every match in order *)

\* ParseFrom that lets a CJK character continue the current run
RECURSIVE ParseFromGlued(_, _)
ParseFromGlued(s, cur) ==
    LET flush == IF cur = <<>> THEN <<>> ELSE <<cur>>
    IN  IF s = <<>> THEN flush
        ELSE IF Head(s) \in AlnumChars \cup CJKChars
             THEN ParseFromGlued(Tail(s), Append(cur, Head(s)))
        ELSE flush \o ParseFromGlued(Tail(s), <<>>)

RECURSIVE ParseFrom(_, _)
ParseFrom(s, cur) ==
    LET flush == IF cur = <<>> THEN <<>> ELSE <<cur>>
    IN  IF s = <<>> THEN flush
        ELSE IF Head(s) \in AlnumChars THEN ParseFrom(Tail(s), Append(cur, Head(s)))
        ELSE IF Head(s) \in CJKChars THEN flush \o <<<<Head(s)>>>> \o ParseFrom(Tail(s), <<>>)
        ELSE flush \o ParseFrom(Tail(s), <<>>)

parseSegmentToTokens(segment) == ParseFrom(segment, <<>>)

-----------------------------------------------------------------------------
(* Segmenter *)

RECURSIVE DropWhitespace(_)
DropWhitespace(s) ==
    IF s # <<>> /\ Head(s) \in WhitespaceChars THEN DropWhitespace(Tail(s)) ELSE s

\* .replace(/([.!?] and the three fullwidth marks)\s*/g, "$1|")
RECURSIVE ReplaceTerminal(_)
ReplaceTerminal(s) ==
    IF s = <<>> THEN <<>>
    ELSE IF Head(s) \in TerminalChars
         THEN <<Head(s), "|">> \o ReplaceTerminal(DropWhitespace(Tail(s)))
         ELSE <<Head(s)>> \o ReplaceTerminal(Tail(s))

\* .split('|')
RECURSIVE SplitFrom(_, _)
SplitFrom(s, cur) ==
    IF s = <<>> THEN <<cur>>
    ELSE IF Head(s) = "|" THEN <<cur>> \o SplitFrom(Tail(s), <<>>)
    ELSE SplitFrom(Tail(s), Append(cur, Head(s)))

SplitBar(s) == SplitFrom(s, <<>>)

RECURSIVE DropWhitespaceEnd(_)
DropWhitespaceEnd(s) ==
    IF s # <<>> /\ s[Len(s)] \in WhitespaceChars
    THEN DropWhitespaceEnd(SubSeq(s, 1, Len(s) - 1)) ELSE s

\* a trim that strips the start of the string only
TrimStart(s) == DropWhitespace(s)

\* String.prototype.trim
Trim(s) == DropWhitespaceEnd(DropWhitespace(s))

NonEmpty(s) == Len(s) > 0

segments(script) ==
    IF script = <<>> THEN <<>>
    ELSE LET parts == SplitBar(ReplaceTerminal(script))
             trimmed == [i \in DOMAIN parts |-> Trim(parts[i])]
         IN  SelectSeq(trimmed, NonEmpty)

segmentTokensMap(script) ==
    LET segs == segments(script) IN [i \in DOMAIN segs |-> parseSegmentToTokens(segs[i])]

-----------------------------------------------------------------------------
(* The matching effect of TopPanel *)

LookaheadMaxOffset == 4
JumpWindow == 3

\* the inner for loop: the index after the first script token, at offsets
\* 0..4 from currentMatchIndex, that equals the spoken token; -1 when none
LocalMatch(currentTokens, currentMatchIndex, spokenClean) ==
    LET hits == {offset \in 0..LookaheadMaxOffset :
                    /\ currentMatchIndex + offset < Len(currentTokens)
                    /\ toLowerCase(currentTokens[currentMatchIndex + offset + 1]) = spokenClean}
    IN  IF hits = {} THEN -1
        ELSE currentMatchIndex + (CHOOSE o \in hits : \A p \in hits : o <= p) + 1

\* a completion gate that never opens
CompletionGateShut(currentTokens, currentMatchIndex) == FALSE

\* completionRatio > 0.6, with completionRatio = 1 for an empty token table
CompletionGate(currentTokens, currentMatchIndex) ==
    IF Len(currentTokens) > 0 THEN 10 * currentMatchIndex > 6 * Len(currentTokens) ELSE TRUE

\* the loop over the first 3 tokens of the next segment: the first j that hits, -1 when none
JumpOffset(nextTokens, spokenClean) ==
    LET hits == {j \in 0..(Min(JumpWindow, Len(nextTokens)) - 1) :
                    toLowerCase(nextTokens[j + 1]) = spokenClean}
    IN  IF hits = {} THEN -1 ELSE CHOOSE j \in hits : \A p \in hits : j <= p

\* the for loop over spokenTokens; it returns from the effect at the first jump
RECURSIVE MatchLoop(_, _, _, _)
MatchLoop(spokenTokens, currentMatchIndex, asi, tokensMap) ==
    IF spokenTokens = <<>>
    THEN [jumped |-> FALSE, j |-> 0, cmi |-> currentMatchIndex, tok |-> <<>>, rest |-> <<>>]
    ELSE LET currentTokens == tokensMap[asi + 1]
             spokenClean == toLowerCase(Head(spokenTokens))
             found == LocalMatch(currentTokens, currentMatchIndex, spokenClean)
             cmi == IF found >= 0 THEN found ELSE currentMatchIndex
             j == IF /\ found < 0
                     /\ asi < Len(tokensMap) - 1
                     /\ CompletionGate(currentTokens, cmi)
                  THEN JumpOffset(tokensMap[asi + 2], spokenClean)
                  ELSE -1
         IN  IF j >= 0
             THEN [jumped |-> TRUE, j |-> j, cmi |-> cmi, tok |-> Head(spokenTokens),
                   rest |-> Tail(spokenTokens)]
             ELSE MatchLoop(Tail(spokenTokens), cmi, asi, tokensMap)

\* LocalReads without the test checkIndex >= currentTokens.length
LocalReadsUnguarded(currentTokens, currentMatchIndex, spokenClean) ==
    {currentMatchIndex + o : o \in 0..LookaheadMaxOffset}

\* the indices of currentTokens the inner for loop reads: checkIndex for the
\* offsets up to the first hit, as long as checkIndex < currentTokens.length
LocalReads(currentTokens, currentMatchIndex, spokenClean) ==
    {currentMatchIndex + o :
        o \in {o \in 0..LookaheadMaxOffset :
                 /\ currentMatchIndex + o < Len(currentTokens)
                 /\ \A p \in 0..(o - 1) :
                      toLowerCase(currentTokens[currentMatchIndex + p + 1]) # spokenClean}}

\* the indices of nextTokens the jump loop reads: j up to the first hit
JumpReads(nextTokens, spokenClean) ==
    {j \in 0..(Min(JumpWindow, Len(nextTokens)) - 1) :
        \A p \in 0..(j - 1) : toLowerCase(nextTokens[p + 1]) # spokenClean}

\* what the loop over spokenTokens reads: tokens (segment, index) of the
\* active and of the next segment, and the token table of the next segment
RECURSIVE EffectReads(_, _, _, _)
EffectReads(spokenTokens, currentMatchIndex, asi, tokensMap) ==
    IF spokenTokens = <<>> THEN {}
    ELSE LET currentTokens == tokensMap[asi + 1]
             spokenClean == toLowerCase(Head(spokenTokens))
             found == LocalMatch(currentTokens, currentMatchIndex, spokenClean)
             cmi == IF found >= 0 THEN found ELSE currentMatchIndex
             tried == /\ found < 0
                      /\ asi < Len(tokensMap) - 1
                      /\ CompletionGate(currentTokens, cmi)
             j == IF tried THEN JumpOffset(tokensMap[asi + 2], spokenClean) ELSE -1
             here == {[what |-> "token", seg |-> asi, idx |-> i] :
                         i \in LocalReads(currentTokens, currentMatchIndex, spokenClean)}
                     \cup (IF tried
                           THEN {[what |-> "table", seg |-> asi + 1, idx |-> 0]}
                                \cup {[what |-> "token", seg |-> asi + 1, idx |-> i] :
                                         i \in JumpReads(tokensMap[asi + 2], spokenClean)}
                           ELSE {})
         IN  here \cup (IF j >= 0 THEN {}
                        ELSE EffectReads(Tail(spokenTokens), cmi, asi, tokensMap))

\* EffectResult that forgets the cursor when the delta holds no token
EffectResultDropCursor(kind, lastLen, cmi, j, arm, tok, rest) ==
    [kind |-> kind, lastLen |-> IF kind = "notokens" THEN 0 ELSE lastLen, cmi |-> cmi,
     j |-> j, arm |-> arm, tok |-> tok, rest |-> rest]

EffectResult(kind, lastLen, cmi, j, arm, tok, rest) ==
    [kind |-> kind, lastLen |-> lastLen, cmi |-> cmi, j |-> j, arm |-> arm, tok |-> tok,
     rest |-> rest]

\* MatchingEffect without the guard fullTranscript.length <= prevLen
MatchingEffectNoGuard(feature, fullTranscript, prevLen, asi, mwc, tokensMap, timeoutRef) ==
    IF feature # "TELEPROMPTER" THEN EffectResult("off", prevLen, mwc, 0, FALSE, <<>>, <<>>)
    ELSE LET spokenTokens == parseSegmentToTokens(Slice(fullTranscript, prevLen))
             n == Len(fullTranscript)
         IN  IF spokenTokens = <<>> THEN EffectResult("notokens", n, mwc, 0, FALSE, <<>>, <<>>)
             ELSE IF ~(asi \in 0..(Len(tokensMap) - 1))
                  THEN EffectResult("end", n, mwc, 0, FALSE, <<>>, <<>>)
             ELSE LET r == MatchLoop(spokenTokens, mwc, asi, tokensMap)
                      currentTokens == tokensMap[asi + 1]
                  IN  IF r.jumped THEN EffectResult("jump", n, r.cmi, r.j, FALSE, r.tok, r.rest)
                      ELSE EffectResult("done", n, r.cmi, 0,
                                        /\ Len(currentTokens) > 0
                                        /\ r.cmi >= Len(currentTokens)
                                        /\ timeoutRef = 0,
                                        <<>>, <<>>)

\* One run of the effect with the values its render closed over.  kind is the
\* exit it takes: "off" (feature is not the teleprompter), "stale" (nothing
\* new), "notokens", "end" (no active token table), "jump", "done".
MatchingEffect(feature, fullTranscript, prevLen, asi, mwc, tokensMap, timeoutRef) ==
    IF feature # "TELEPROMPTER" THEN EffectResult("off", prevLen, mwc, 0, FALSE, <<>>, <<>>)
    ELSE IF Len(fullTranscript) <= prevLen THEN EffectResult("stale", prevLen, mwc, 0, FALSE, <<>>, <<>>)
    ELSE LET spokenTokens == parseSegmentToTokens(Slice(fullTranscript, prevLen))
             n == Len(fullTranscript)
         IN  IF spokenTokens = <<>> THEN EffectResult("notokens", n, mwc, 0, FALSE, <<>>, <<>>)
             ELSE IF ~(asi \in 0..(Len(tokensMap) - 1))
                  THEN EffectResult("end", n, mwc, 0, FALSE, <<>>, <<>>)
             ELSE LET r == MatchLoop(spokenTokens, mwc, asi, tokensMap)
                      currentTokens == tokensMap[asi + 1]
                  IN  IF r.jumped THEN EffectResult("jump", n, r.cmi, r.j, FALSE, r.tok, r.rest)
                      ELSE EffectResult("done", n, r.cmi, 0,
                                        /\ Len(currentTokens) > 0
                                        /\ r.cmi >= Len(currentTokens)
                                        /\ timeoutRef = 0,
                                        <<>>, <<>>)

-----------------------------------------------------------------------------
(* Timers *)

\* setTimeout: a fresh timer id
NewTimerId(tm) == IF tm = {} THEN 1 ELSE 1 + (CHOOSE i \in {t.id : t \in tm} : \A t \in tm : t.id <= i)

\* clearTimeout(id)
ClearTimeout(tm, id) == {t \in tm : t.id # id}

\* ApplyEffect without the clearTimeout of the jump branch
ApplyEffectKeepTimer(r, baseAsi, baseMwc, timeoutRef, tm, segLen, asi) ==
    /\ lastTranscriptLengthRef' = r.lastLen
    /\ activeSegmentIndex' = IF r.kind = "jump" THEN baseAsi + 1 ELSE baseAsi
    /\ matchedWordCount' = IF r.kind = "jump" THEN r.j + 1
                           ELSE IF r.kind = "done" THEN r.cmi ELSE baseMwc
    /\ IF r.kind = "done" /\ r.arm
       THEN /\ timers' = tm \cup {[id |-> NewTimerId(tm), kind |-> "auto", segLen |-> segLen, seg |-> asi]}
            /\ scrollTimeoutRef' = NewTimerId(tm)
       ELSE /\ timers' = tm
            /\ scrollTimeoutRef' = timeoutRef

\* ApplyEffect whose jump branch empties the slot without clearTimeout
ApplyEffectSlotOnly(r, baseAsi, baseMwc, timeoutRef, tm, segLen, asi) ==
    /\ lastTranscriptLengthRef' = r.lastLen
    /\ activeSegmentIndex' = IF r.kind = "jump" THEN baseAsi + 1 ELSE baseAsi
    /\ matchedWordCount' = IF r.kind = "jump" THEN r.j + 1
                           ELSE IF r.kind = "done" THEN r.cmi ELSE baseMwc
    /\ IF r.kind = "jump" /\ timeoutRef # 0
       THEN /\ timers' = tm
            /\ scrollTimeoutRef' = 0
       ELSE IF r.kind = "done" /\ r.arm
       THEN /\ timers' = tm \cup {[id |-> NewTimerId(tm), kind |-> "auto", segLen |-> segLen, seg |-> asi]}
            /\ scrollTimeoutRef' = NewTimerId(tm)
       ELSE /\ timers' = tm
            /\ scrollTimeoutRef' = timeoutRef

\* What a run of the matching effect (result r) leaves behind, given the
\* state updates already queued before it (baseAsi, baseMwc), the timer slot
\* and the live timers at that moment, and segments.length and
\* activeSegmentIndex of its render (a timer keeps them: seg is the segment
\* whose completion armed it).
ApplyEffect(r, baseAsi, baseMwc, timeoutRef, tm, segLen, asi) ==
    /\ lastTranscriptLengthRef' = r.lastLen
    /\ activeSegmentIndex' = IF r.kind = "jump" THEN baseAsi + 1 ELSE baseAsi
    /\ matchedWordCount' = IF r.kind = "jump" THEN r.j + 1
                           ELSE IF r.kind = "done" THEN r.cmi ELSE baseMwc
    /\ IF r.kind = "jump" /\ timeoutRef # 0
       THEN /\ timers' = ClearTimeout(tm, timeoutRef)
            /\ scrollTimeoutRef' = 0
       ELSE IF r.kind = "done" /\ r.arm
       THEN /\ timers' = tm \cup {[id |-> NewTimerId(tm), kind |-> "auto", segLen |-> segLen, seg |-> asi]}
            /\ scrollTimeoutRef' = NewTimerId(tm)
       ELSE /\ timers' = tm
            /\ scrollTimeoutRef' = timeoutRef

\* The history of the last event: its kind, the exit the matching effect
\* took, the navigation or timer kind, the state (k, m), the cursor and the
\* timer slot it started from, and for a jump the spoken token that jumped,
\* currentMatchIndex at that token, the offset j and the spoken tokens after it.
Event(kind, r, nav) ==
    [kind |-> kind, effect |-> r.kind, nav |-> nav,
     k |-> activeSegmentIndex, m |-> matchedWordCount,
     cursor |-> lastTranscriptLengthRef,
     cmi |-> r.cmi, tok |-> r.tok,
     j |-> r.j, rest |-> r.rest, refBefore |-> scrollTimeoutRef]

-----------------------------------------------------------------------------
(* Inputs *)

MaxTranscriptLen == 8

\* "A b c. d a. b": three segments, the last one without a terminal mark
ScriptThree == <<"A", " ", "b", " ", "c", ".", " ", "d", " ", "a", ".", " ", "b">>
\* "c. . d": the middle segment "." has no token
ScriptDot == <<"c", ".", " ", ".", " ", "d">>
\* "d": one segment
ScriptOne == <<"d">>
ScriptEmpty == <<>>
ScriptBlank == <<" ">>

\* what the settings dialog can save
Scripts == {ScriptThree, ScriptDot, ScriptOne, ScriptEmpty, ScriptBlank}

\* what one recognizer callback can deliver: a non-empty text
Utterances == {<<"a", " ", "b">>, <<"c">>, <<"d", " ", "a">>, <<".">>}

WheelDeltas == {-30, 10, 30}

NoEffect == EffectResult("none", 0, 0, 0, FALSE, <<>>, <<>>)

\* no scripted run: the inputs come from the user and the recognizer
NoRun == [all |-> <<>>, todo |-> <<>>, jumps |-> 0, first |-> <<>>]

-----------------------------------------------------------------------------
(* State after construction.  App starts with DEFAULT_SCRIPT; any script  *)
(* of Scripts is in place after one save in the settings dialog followed   *)
(* by switching the feature off, which leaves every other field as here.   *)

\* ---- the speech services (src/services/geminiService.ts) ----

\* connect() calls of the services in a run
MaxConnects == 2

Calls == 1..MaxConnects

\* generate32HexId: a random id
TaskIds == {1, 2}

\* CloseEvent.code: normal closure, no status received, token expired
CloseCodes == {1000, 1005, 4402}

\* a WebSocket of aliyunAsr: readyState, task_id of the first
\* StartTranscription sent on it and of the StopTranscription (0: none), the
\* number of StopTranscription commands
NoSocket == [state |-> "none", start |-> 0, stop |-> 0, stops |-> 0]

\* aliyunAsr and geminiLive after construction. The c-th connect() call of
\* aliyunAsr owns conns[c] (where the call stands), pipes[c] (its
\* ScriptProcessorNode) and socks[c] (its WebSocket); the g-th call of
\* geminiLive owns sessions[g] and gemPipes[g]. 0 is null.
ServicesIdle ==
    [tokenOk |-> TRUE,
     aliWs |-> 0, aliConnected |-> FALSE, aliCallbacks |-> 0, aliProcessor |-> 0,
     aliCalls |-> 0, aliIdle |-> TRUE,
     conns |-> [c \in Calls |-> "none"],
     pipes |-> [c \in Calls |-> "none"],
     socks |-> [c \in Calls |-> NoSocket],
     gemSession |-> 0, gemConnected |-> FALSE, gemProcessor |-> 0, gemCalls |-> 0,
     sessions |-> [g \in Calls |-> [state |-> "none", closeQueued |-> FALSE]],
     gemPipes |-> [g \in Calls |-> "none"],
     last |-> [kind |-> "none", id |-> 0, callbacks |-> 0]]

\* history of the last service event: its kind, the socket, session or call
\* it belongs to, and the callbacks object it invoked (0: none)
SvcEvent(kind, id, callbacks) == [kind |-> kind, id |-> id, callbacks |-> callbacks]

\* AliyunAsrService.disconnect(); tid is the task_id generateTaskId returns
AliDisconnect(s, tid) ==
    LET w == s.aliWs
        p == s.aliProcessor
        pipes1 == IF p # 0 THEN [s.pipes EXCEPT ![p] = "off"] ELSE s.pipes
        socks1 == IF w = 0 THEN s.socks
                  ELSE [s.socks EXCEPT ![w] =
                          IF @.state = "open"
                          THEN [@ EXCEPT !.state = "closing", !.stop = tid, !.stops = @ + 1]
                          ELSE IF @.state = "connecting" THEN [@ EXCEPT !.state = "closing"]
                          ELSE @]
    IN  [s EXCEPT !.aliConnected = FALSE, !.pipes = pipes1, !.socks = socks1,
                  !.aliWs = 0, !.aliProcessor = 0]

\* AliyunAsrService.connect() up to its first wait: disconnect(), the fields,
\* getToken() and startAudioStream() up to getUserMedia
AliConnect(s, tid) ==
    LET d == AliDisconnect(s, tid)
        c == s.aliCalls + 1
    IN  [d EXCEPT !.aliCalls = c, !.aliCallbacks = c, !.aliConnected = FALSE,
                  !.aliIdle = FALSE,
                  !.conns[c] = IF s.tokenOk THEN "media" ELSE "failed"]

\* GeminiLiveService.disconnect()
GemDisconnect(s) ==
    LET g == s.gemSession
        p == s.gemProcessor
        pipes1 == IF p # 0 THEN [s.gemPipes EXCEPT ![p] = "off"] ELSE s.gemPipes
        sess1 == IF g = 0 THEN s.sessions
                 ELSE [s.sessions EXCEPT ![g] =
                         IF @.state = "open" THEN [@ EXCEPT !.state = "closing"]
                         ELSE IF @.state = "connecting" THEN [@ EXCEPT !.closeQueued = TRUE]
                         ELSE @]
    IN  [s EXCEPT !.gemConnected = FALSE, !.gemPipes = pipes1, !.sessions = sess1,
                  !.gemSession = 0, !.gemProcessor = 0]

\* GeminiLiveService.connect()
GemConnect(s) ==
    LET d == GemDisconnect(s)
        g == s.gemCalls + 1
    IN  [d EXCEPT !.gemCalls = g, !.gemConnected = FALSE, !.gemSession = g,
                  !.sessions[g] = [state |-> "connecting", closeQueued |-> FALSE]]

Init ==
    /\ svc = ServicesIdle
    /\ aiFeature = "NONE"
    /\ teleprompterScript \in Scripts
    /\ transcript = <<>>
    /\ showSettings = FALSE
    /\ activeSegmentIndex = 0
    /\ matchedWordCount = 0
    /\ lastTranscriptLengthRef = 0
    /\ scrollTimeoutRef = 0
    /\ timers = {}
    /\ ev = [kind |-> "init", effect |-> "none", nav |-> "none", k |-> 0, m |-> 0,
             cursor |-> 0, cmi |-> 0, tok |-> <<>>,
             j |-> 0, rest |-> <<>>, refBefore |-> 0]
    /\ run = NoRun

-----------------------------------------------------------------------------
(* Events *)

\* TranscriptUpdate that replaces the transcript by the latest utterance
TranscriptUpdateReplace(t) ==
    /\ Len(transcript) + 1 + Len(t) <= MaxTranscriptLen
    /\ LET full == <<" ">> \o t
           map == segmentTokensMap(teleprompterScript)
           r == MatchingEffect(aiFeature, full, lastTranscriptLengthRef,
                               activeSegmentIndex, matchedWordCount, map, scrollTimeoutRef)
       IN  /\ transcript' = full
           /\ ApplyEffect(r, activeSegmentIndex, matchedWordCount, scrollTimeoutRef,
                          timers, Len(map), activeSegmentIndex)
           /\ ev' = Event("transcript", r, "none")
    /\ UNCHANGED <<aiFeature, teleprompterScript, showSettings, run, svc>>

\* onTranscriptUpdate of the connected service: setTranscript(prev => prev + " " + t),
\* then the render runs the matching effect on the new transcript; the
\* callback does not look at aiFeature, and a service that an error left
\* connected calls it while the feature is NONE
TranscriptUpdate(t) ==
    /\ Len(transcript) + 1 + Len(t) <= MaxTranscriptLen
    /\ LET full == transcript \o <<" ">> \o t
           map == segmentTokensMap(teleprompterScript)
           r == MatchingEffect(aiFeature, full, lastTranscriptLengthRef,
                               activeSegmentIndex, matchedWordCount, map, scrollTimeoutRef)
       IN  /\ transcript' = full
           /\ ApplyEffect(r, activeSegmentIndex, matchedWordCount, scrollTimeoutRef,
                          timers, Len(map), activeSegmentIndex)
           /\ ev' = Event("transcript", r, "none")
    /\ UNCHANGED <<aiFeature, teleprompterScript, showSettings, run, svc>>

\* a timer of the panel fires: the auto-advance callback (armed by the
\* matching effect, with segments.length of the render that armed it) or the
\* wheel throttle callback; the re-render then runs the matching effect
TimerFire(t) ==
    /\ t \in timers
    /\ LET asi == IF t.kind = "auto" THEN Min(activeSegmentIndex + 1, t.segLen)
                  ELSE activeSegmentIndex
           mwc == IF t.kind = "auto" THEN 0 ELSE matchedWordCount
           map == segmentTokensMap(teleprompterScript)
           r == MatchingEffect(aiFeature, transcript, lastTranscriptLengthRef,
                               asi, mwc, map, 0)
       IN  /\ ApplyEffect(r, asi, mwc, 0, timers \ {t}, Len(map), asi)
           /\ ev' = Event("timer", r, t.kind)
    /\ UNCHANGED <<aiFeature, teleprompterScript, transcript, showSettings, run, svc>>

\* the functional update of handleManualScroll
ManualIndex(direction, prev, segLen) ==
    IF direction = "next" THEN Min(prev + 1, segLen - 1) ELSE Max(prev - 1, 0)

\* ManualScroll that also rewinds the cursor
ManualScrollRewind(direction, timeoutRef, tm, kind) ==
    LET map == segmentTokensMap(teleprompterScript)
        nextIdx == ManualIndex(direction, activeSegmentIndex, Len(map))
        mwc == IF nextIdx # activeSegmentIndex THEN 0 ELSE matchedWordCount
        r == MatchingEffect(aiFeature, transcript, lastTranscriptLengthRef,
                            nextIdx, mwc, map, timeoutRef)
    IN  /\ ApplyEffect([r EXCEPT !.lastLen = 0], nextIdx, mwc, timeoutRef, tm, Len(map), nextIdx)
        /\ ev' = Event(kind, r, direction)

\* handleManualScroll(direction) and the render after it
ManualScroll(direction, timeoutRef, tm, kind) ==
    LET map == segmentTokensMap(teleprompterScript)
        nextIdx == ManualIndex(direction, activeSegmentIndex, Len(map))
        mwc == IF nextIdx # activeSegmentIndex THEN 0 ELSE matchedWordCount
        r == MatchingEffect(aiFeature, transcript, lastTranscriptLengthRef,
                            nextIdx, mwc, map, timeoutRef)
    IN  /\ ApplyEffect(r, nextIdx, mwc, timeoutRef, tm, Len(map), nextIdx)
        /\ ev' = Event(kind, r, direction)

\* a click on the previous/next line or on an arrow button; the lines are
\* rendered, and clickable, whenever the teleprompter is shown
Click(direction) ==
    /\ aiFeature = "TELEPROMPTER"
    /\ ManualScroll(direction, scrollTimeoutRef, timers, "click")
    /\ UNCHANGED <<aiFeature, teleprompterScript, transcript, showSettings, run, svc>>

\* handleWheel
Wheel(deltaY) ==
    /\ aiFeature # "NONE"
    /\ IF aiFeature = "TELEPROMPTER" /\ scrollTimeoutRef = 0 /\ (deltaY > 20 \/ deltaY < -20)
       THEN LET id == NewTimerId(timers)
            IN  ManualScroll(IF deltaY > 0 THEN "next" ELSE "prev", id,
                             timers \cup {[id |-> id, kind |-> "wheel", segLen |-> 0, seg |-> 0]},
                             "wheel")
       ELSE /\ ev' = Event("wheel", NoEffect,
                            IF aiFeature = "TELEPROMPTER" /\ (deltaY > 20 \/ deltaY < -20)
                            THEN "throttled" ELSE "none")
            /\ UNCHANGED <<activeSegmentIndex, matchedWordCount, lastTranscriptLengthRef,
                           scrollTimeoutRef, timers>>
    /\ UNCHANGED <<aiFeature, teleprompterScript, transcript, showSettings, run, svc>>

\* the reset effect of TopPanel, [teleprompterScript, feature], followed in
\* the same commit by the matching effect, which still sees the index and
\* the count of the render that triggered them
ResetAndMatch(feature, script, fullTranscript, kind) ==
    LET map == segmentTokensMap(script)
        r == MatchingEffect(feature, fullTranscript, 0,
                            activeSegmentIndex, matchedWordCount, map, scrollTimeoutRef)
    IN  /\ ApplyEffect(r, 0, 0, scrollTimeoutRef, timers, Len(map), activeSegmentIndex)
        /\ ev' = Event(kind, r, "none")

\* handleSetAiFeature(feature), as the two buttons of ControlDock call it
SetAiFeature(feature) ==
    /\ feature # aiFeature
    /\ aiFeature' = feature
    /\ transcript' = <<>>
    /\ ResetAndMatch(feature, teleprompterScript, <<>>, "feature")
    /\ UNCHANGED <<teleprompterScript, showSettings, run, svc>>

\* onError of the service callbacks: setAiFeature(NONE), the transcript stays
ServiceError ==
    /\ aiFeature # "NONE"
    /\ aiFeature' = "NONE"
    /\ ResetAndMatch("NONE", teleprompterScript, transcript, "error")
    /\ UNCHANGED <<teleprompterScript, transcript, showSettings, run, svc>>

\* the settings button, rendered while the teleprompter is on
OpenSettings ==
    /\ aiFeature = "TELEPROMPTER"
    /\ ~showSettings
    /\ showSettings' = TRUE
    /\ ev' = Event("settings", NoEffect, "none")
    /\ UNCHANGED <<aiFeature, teleprompterScript, transcript, activeSegmentIndex,
                   matchedWordCount, lastTranscriptLengthRef, scrollTimeoutRef, timers, run, svc>>

\* Cancel, or Save with the text unchanged
CloseSettings ==
    /\ showSettings
    /\ showSettings' = FALSE
    /\ ev' = Event("settings", NoEffect, "none")
    /\ UNCHANGED <<aiFeature, teleprompterScript, transcript, activeSegmentIndex,
                   matchedWordCount, lastTranscriptLengthRef, scrollTimeoutRef, timers, run, svc>>

\* Save Script with a new text: onSave(s) = setTeleprompterScript(s), onClose()
SaveScript(s) ==
    /\ showSettings
    /\ s # teleprompterScript
    /\ showSettings' = FALSE
    /\ teleprompterScript' = s
    /\ ResetAndMatch(aiFeature, s, transcript, "script")
    /\ UNCHANGED <<aiFeature, transcript, run, svc>>

Next ==
    \/ \E t \in Utterances : TranscriptUpdate(t)
    \/ \E t \in timers : TimerFire(t)
    \/ \E d \in {"next", "prev"} : Click(d)
    \/ \E d \in WheelDeltas : Wheel(d)
    \/ \E f \in {"NONE", "INTERVIEWER", "TELEPROMPTER"} : SetAiFeature(f)
    \/ ServiceError
    \/ OpenSettings
    \/ CloseSettings
    \/ \E s \in Scripts : SaveScript(s)

Spec == Init /\ [][Next]_vars

-----------------------------------------------------------------------------
(* Scripted runs of the panel.  The teleprompter is on, the panel receives  *)
(* a fixed sequence of inputs (values of its transcript prop, clicks on the *)
(* next and previous line) and its timers fire at any moment between them.  *)
(* When a run is over the panel is mounted afresh and the same inputs are   *)
(* replayed, so that two runs on the same inputs can be compared.           *)

MaxPlanLen == 3

\* "Hello world. Testing one two."
ScriptHello ==
    <<"H", "e", "l", "l", "o", " ", "w", "o", "r", "l", "d", ".", " ",
      "T", "e", "s", "t", "i", "n", "g", " ", "o", "n", "e", " ", "t", "w", "o", ".">>
\* "Hello world"
HelloFirst == SubSeq(ScriptHello, 1, 11)
\* "Hello world. Testing"
HelloSecond == SubSeq(ScriptHello, 1, 20)

\* U+4F60 U+597D U+4E16 U+754C U+3002, U+4ECA U+5929 U+5929 U+6C14 U+5F88 U+597D U+3002
ScriptCJK ==
    <<"u4F60", "u597D", "u4E16", "u754C", "u3002",
      "u4ECA", "u5929", "u5929", "u6C14", "u5F88", "u597D", "u3002">>
\* U+4F60 U+597D U+4E16 U+754C, a space, U+4ECA U+5929
TranscriptCJK == <<"u4F60", "u597D", "u4E16", "u754C", " ", "u4ECA", "u5929">>

\* "a b c d e g": one segment of six tokens
ScriptSix == <<"a", " ", "b", " ", "c", " ", "d", " ", "e", " ", "g">>

Deliver(text) == [op |-> "deliver", text |-> text]
Navigate(direction) == [op |-> direction, text |-> <<>>]

\* a script with the inputs its runs are made of
RunScenarios ==
    { [script |-> ScriptHello,
       inputs |-> {Deliver(HelloFirst), Deliver(HelloSecond), Navigate("next")}],
      [script |-> ScriptCJK,
       inputs |-> {Deliver(TranscriptCJK), Deliver(SubSeq(TranscriptCJK, 1, 4)), Navigate("prev")}],
      [script |-> ScriptThree,
       inputs |-> {Deliver(<<"a", " ", "b", " ", "c">>),
                   Deliver(<<"a", " ", "b", " ", "c", " ", "a">>),
                   Deliver(<<"a">>), Navigate("next"), Navigate("prev")}],
      [script |-> ScriptSix,
       inputs |-> {Deliver(<<"e">>), Deliver(<<"b", " ", "g">>), Deliver(<<"g", " ", "g", " ", "d">>)}] }

Plans(inputs) == UNION {[1..n -> inputs] : n \in 1..MaxPlanLen}

RunInit ==
    /\ svc = ServicesIdle
    /\ aiFeature = "TELEPROMPTER"
    /\ \E sc \in RunScenarios :
        /\ teleprompterScript = sc.script
        /\ \E p \in Plans(sc.inputs) :
            run = [all |-> p, todo |-> p, jumps |-> 0, first |-> <<>>]
    /\ transcript = <<>>
    /\ showSettings = FALSE
    /\ activeSegmentIndex = 0
    /\ matchedWordCount = 0
    /\ lastTranscriptLengthRef = 0
    /\ scrollTimeoutRef = 0
    /\ timers = {}
    /\ ev = [kind |-> "init", effect |-> "none", nav |-> "none", k |-> 0, m |-> 0,
             cursor |-> 0, cmi |-> 0, tok |-> <<>>,
             j |-> 0, rest |-> <<>>, refBefore |-> 0]

\* the transcript prop takes its next value and the matching effect runs
RunDeliver ==
    /\ run.todo # <<>>
    /\ Head(run.todo).op = "deliver"
    /\ LET full == Head(run.todo).text
           map == segmentTokensMap(teleprompterScript)
           r == MatchingEffect(aiFeature, full, lastTranscriptLengthRef,
                               activeSegmentIndex, matchedWordCount, map, scrollTimeoutRef)
       IN  /\ transcript' = full
           /\ ApplyEffect(r, activeSegmentIndex, matchedWordCount, scrollTimeoutRef,
                          timers, Len(map), activeSegmentIndex)
           /\ ev' = Event("transcript", r, "none")
           /\ run' = [run EXCEPT !.todo = Tail(run.todo),
                                 !.jumps = IF r.kind = "jump" THEN @ + 1 ELSE @]
    /\ UNCHANGED <<aiFeature, teleprompterScript, showSettings, svc>>

\* a click on the next or the previous line
RunNavigate ==
    /\ run.todo # <<>>
    /\ Head(run.todo).op \in {"next", "prev"}
    /\ ManualScroll(Head(run.todo).op, scrollTimeoutRef, timers, "click")
    /\ run' = [run EXCEPT !.todo = Tail(run.todo)]
    /\ UNCHANGED <<aiFeature, teleprompterScript, transcript, showSettings, svc>>

\* the first run is over and no timer is left: its result is kept, the panel
\* is mounted afresh and the inputs are replayed
RunAgain ==
    /\ run.todo = <<>>
    /\ run.first = <<>>
    /\ timers = {}
    /\ run' = [run EXCEPT !.todo = run.all, !.jumps = 0,
                          !.first = <<activeSegmentIndex, matchedWordCount>>]
    /\ transcript' = <<>>
    /\ activeSegmentIndex' = 0
    /\ matchedWordCount' = 0
    /\ lastTranscriptLengthRef' = 0
    /\ scrollTimeoutRef' = 0
    /\ timers' = {}
    /\ ev' = Event("mount", NoEffect, "none")
    /\ UNCHANGED <<aiFeature, teleprompterScript, showSettings, svc>>

RunNext ==
    \/ RunDeliver
    \/ RunNavigate
    \/ \E t \in timers : TimerFire(t)
    \/ RunAgain

SpecRun == RunInit /\ [][RunNext]_vars

-----------------------------------------------------------------------------
(* Texts.  Any text over a small alphabet is the script; switching the     *)
(* teleprompter on segments and tokenizes it, and the speaker reading the  *)
(* script out tokenizes the same text as a transcript.                     *)

MaxTextLen == 4

\* a letter, a digit, a CJK character, a space, a terminal mark, the bar, and
\* U+00E9, a letter outside a-z, A-Z, 0-9
TextChars == {"a", "1", "u4F60", " ", ".", "|", "uE9"}

Texts == UNION {[1..n -> TextChars] : n \in 0..MaxTextLen}

TextInit ==
    /\ svc = ServicesIdle
    /\ aiFeature = "NONE"
    /\ teleprompterScript \in Texts
    /\ transcript = <<>>
    /\ showSettings = FALSE
    /\ activeSegmentIndex = 0
    /\ matchedWordCount = 0
    /\ lastTranscriptLengthRef = 0
    /\ scrollTimeoutRef = 0
    /\ timers = {}
    /\ ev = [kind |-> "init", effect |-> "none", nav |-> "none", k |-> 0, m |-> 0,
             cursor |-> 0, cmi |-> 0, tok |-> <<>>,
             j |-> 0, rest |-> <<>>, refBefore |-> 0]
    /\ run = NoRun

\* the recognizer delivers the script as the speaker reads it, once
ReadAloud ==
    /\ teleprompterScript # <<>>
    /\ transcript = <<>>
    /\ TranscriptUpdate(teleprompterScript)

TextNext ==
    \/ \E f \in {"NONE", "INTERVIEWER", "TELEPROMPTER"} : SetAiFeature(f)
    \/ ReadAloud
    \/ \E t \in timers : TimerFire(t)

SpecText == TextInit /\ [][TextNext]_vars

\* ---- the speaker reads the script: one transcript update per token ----

ScriptDotLast == <<"a", ".", " ", ".">>
ScriptTwo == <<"a", ".", " ", "b">>

SpeakScripts == Texts \cup Scripts \cup {ScriptDotLast, ScriptTwo, ScriptHello, ScriptCJK}

\* the tokens of all segments of the script, in script order
RECURSIVE AllTokens(_)
AllTokens(map) == IF map = <<>> THEN <<>> ELSE Head(map) \o AllTokens(Tail(map))

SpeakInit ==
    /\ svc = ServicesIdle
    /\ aiFeature = "TELEPROMPTER"
    /\ teleprompterScript \in SpeakScripts
    /\ LET toks == AllTokens(segmentTokensMap(teleprompterScript))
           p == [i \in DOMAIN toks |-> Deliver(toks[i])]
       IN  run = [all |-> p, todo |-> p, jumps |-> 0, first |-> <<>>]
    /\ transcript = <<>>
    /\ showSettings = FALSE
    /\ activeSegmentIndex = 0
    /\ matchedWordCount = 0
    /\ lastTranscriptLengthRef = 0
    /\ scrollTimeoutRef = 0
    /\ timers = {}
    /\ ev = [kind |-> "init", effect |-> "none", nav |-> "none", k |-> 0, m |-> 0,
             cursor |-> 0, cmi |-> 0, tok |-> <<>>,
             j |-> 0, rest |-> <<>>, refBefore |-> 0]

\* the recognizer delivers the next token of the script: App appends it to
\* the transcript after a space and the matching effect runs
SpeakToken ==
    /\ run.todo # <<>>
    /\ LET full == transcript \o <<" ">> \o Head(run.todo).text
           map == segmentTokensMap(teleprompterScript)
           r == MatchingEffect(aiFeature, full, lastTranscriptLengthRef,
                               activeSegmentIndex, matchedWordCount, map, scrollTimeoutRef)
       IN  /\ transcript' = full
           /\ ApplyEffect(r, activeSegmentIndex, matchedWordCount, scrollTimeoutRef,
                          timers, Len(map), activeSegmentIndex)
           /\ ev' = Event("transcript", r, "none")
           /\ run' = [run EXCEPT !.todo = Tail(run.todo),
                                 !.jumps = IF r.kind = "jump" THEN @ + 1 ELSE @]
    /\ UNCHANGED <<aiFeature, teleprompterScript, showSettings, svc>>

SpeakTimer == \E t \in timers : TimerFire(t)

SpeakNext ==
    \/ SpeakToken
    \/ SpeakTimer

\* every token is delivered in the end and a live timer fires in the end
SpecSpeak ==
    SpeakInit /\ [][SpeakNext]_vars /\ WF_vars(SpeakToken) /\ WF_vars(SpeakTimer)

\* ---- the App with its speech services ----

\* what a recognizer returns for an utterance
SvcUtterance == <<"d", " ", "a", " ", "b">>

SvcInit ==
    /\ aiFeature = "NONE"
    /\ teleprompterScript = ScriptEmpty
    /\ transcript = <<>>
    /\ showSettings = FALSE
    /\ activeSegmentIndex = 0
    /\ matchedWordCount = 0
    /\ lastTranscriptLengthRef = 0
    /\ scrollTimeoutRef = 0
    /\ timers = {}
    /\ ev = [kind |-> "init", effect |-> "none", nav |-> "none", k |-> 0, m |-> 0,
             cursor |-> 0, cmi |-> 0, tok |-> <<>>,
             j |-> 0, rest |-> <<>>, refBefore |-> 0]
    /\ run = NoRun
    /\ \E ok \in BOOLEAN : svc = [ServicesIdle EXCEPT !.tokenOk = ok]

\* callbacks.onTranscriptUpdate(t): setTranscript(prev => prev + " " + t) and
\* the render of TopPanel after it
AppTranscriptUpdate(t) ==
    /\ Len(transcript) + 1 + Len(t) <= MaxTranscriptLen
    /\ LET full == transcript \o <<" ">> \o t
           map == segmentTokensMap(teleprompterScript)
           r == MatchingEffect(aiFeature, full, lastTranscriptLengthRef,
                               activeSegmentIndex, matchedWordCount, map, scrollTimeoutRef)
       IN  /\ transcript' = full
           /\ ApplyEffect(r, activeSegmentIndex, matchedWordCount, scrollTimeoutRef,
                          timers, Len(map), activeSegmentIndex)
           /\ ev' = Event("transcript", r, "none")
    /\ UNCHANGED <<aiFeature, teleprompterScript, showSettings, run>>

\* callbacks.onError(e): setAiFeature(NONE); nothing renders when the feature
\* is NONE already
AppOnError ==
    IF aiFeature = "NONE"
    THEN UNCHANGED <<aiFeature, teleprompterScript, transcript, showSettings,
                     activeSegmentIndex, matchedWordCount, lastTranscriptLengthRef,
                     scrollTimeoutRef, timers, ev, run>>
    ELSE /\ aiFeature' = "NONE"
         /\ ResetAndMatch("NONE", teleprompterScript, transcript, "error")
         /\ UNCHANGED <<teleprompterScript, transcript, showSettings, run>>

\* a service event that sets no state of the App
AppQuiet ==
    UNCHANGED <<aiFeature, teleprompterScript, transcript, showSettings,
                activeSegmentIndex, matchedWordCount, lastTranscriptLengthRef,
                scrollTimeoutRef, timers, ev, run>>

\* handleSetAiFeature(feature) as the two buttons of ControlDock call it, up
\* to the first wait of connect()
HandleSetAiFeature(feature) ==
    /\ feature # aiFeature
    /\ feature # "NONE" => svc.aliCalls + svc.gemCalls < MaxConnects
    /\ \E tid \in TaskIds :
         LET s1 == IF feature = "NONE"
                   THEN [AliDisconnect(GemDisconnect(svc), tid) EXCEPT !.aliIdle = TRUE]
                   ELSE IF feature = "TELEPROMPTER" THEN AliConnect(svc, tid)
                   ELSE GemConnect(svc)
             failed == feature = "TELEPROMPTER" /\ ~svc.tokenOk
             shown == IF failed THEN "NONE" ELSE feature
         IN  /\ svc' = [s1 EXCEPT !.last =
                          SvcEvent(IF feature = "NONE" THEN "disconnect" ELSE "connect", IF feature = "TELEPROMPTER" THEN s1.aliCalls ELSE IF feature = "INTERVIEWER" THEN s1.gemCalls ELSE 0, IF failed THEN s1.aliCalls ELSE 0)]
             /\ aiFeature' = shown
             /\ transcript' = <<>>
             /\ ResetAndMatch(shown, teleprompterScript, <<>>, "feature")
    /\ UNCHANGED <<teleprompterScript, showSettings, run>>

\* getUserMedia of the c-th connect() resolves: the audio pipeline is built
\* and connectWebSocket creates the socket
AliMediaGranted(c) ==
    /\ svc.conns[c] = "media"
    /\ svc' = [svc EXCEPT !.conns[c] = "socket", !.pipes[c] = "live", !.aliProcessor = c,
                          !.aliWs = c, !.socks[c].state = "connecting",
                          !.last = SvcEvent("media", c, 0)]
    /\ AppQuiet

\* getUserMedia rejects: connect() reports it through its callbacks
AliMediaDenied(c) ==
    /\ svc.conns[c] = "media"
    /\ svc' = [svc EXCEPT !.conns[c] = "failed",
                          !.last = SvcEvent("denied", c, c)]
    /\ AppOnError

\* ws.onopen of the socket of call c: StartTranscription goes to this.ws,
\* which throws on a socket that is still connecting
AliSockOpen(c) ==
    /\ svc.socks[c].state = "connecting"
    /\ \E tid \in TaskIds :
         LET w == svc.aliWs
             opened == [svc EXCEPT !.socks[c].state = "open"]
             throws == w # 0 /\ opened.socks[w].state = "connecting"
             sent == IF w # 0 /\ opened.socks[w].state = "open"
                     THEN [opened EXCEPT !.socks[w].start = IF @ = 0 THEN tid ELSE @]
                     ELSE opened
         IN  svc' = IF throws
                    THEN [opened EXCEPT !.last = SvcEvent("open", c, 0)]
                    ELSE [sent EXCEPT !.aliConnected = TRUE,
                                      !.conns[c] = IF @ = "socket" THEN "done" ELSE @,
                                      !.last = SvcEvent("open", c, 0)]
    /\ AppQuiet

\* ws.onmessage with TranscriptionResultChanged or SentenceEnd, which the
\* server sends for a started transcription
AliResult(c) ==
    /\ svc.socks[c].state \in {"open", "closing"}
    /\ svc.socks[c].start # 0
    /\ svc.aliCallbacks # 0
    /\ svc' = [svc EXCEPT !.last = SvcEvent("result", c, svc.aliCallbacks)]
    /\ AppTranscriptUpdate(SvcUtterance)

\* ws.onmessage with TaskFailed
AliTaskFailed(c) ==
    /\ svc.socks[c].state \in {"open", "closing"}
    /\ svc.aliCallbacks # 0
    /\ svc' = [svc EXCEPT !.last = SvcEvent("taskFailed", c, svc.aliCallbacks)]
    /\ AppOnError

\* ws.onerror: the connection fails and closes; the promise of
\* connectWebSocket is rejected if it is still pending
AliSockError(c) ==
    /\ svc.socks[c].state \in {"connecting", "open"}
    /\ svc' = [svc EXCEPT !.aliConnected = FALSE, !.socks[c].state = "closing",
                          !.conns[c] = IF @ = "socket" THEN "failed" ELSE @,
                          !.last = SvcEvent("sockError", c, IF svc.conns[c] = "socket" THEN c ELSE 0)]
    /\ IF svc.conns[c] = "socket" THEN AppOnError ELSE AppQuiet

\* ws.onclose with the code of the close event
AliSockClose(c, code) ==
    /\ svc.socks[c].state \in {"connecting", "open", "closing"}
    /\ LET notify == code # 1000 /\ code # 4402 /\ svc.aliCallbacks # 0
       IN  /\ svc' = [svc EXCEPT !.aliConnected = FALSE, !.socks[c].state = "closed",
                                 !.last = SvcEvent("sockClose", c, IF notify THEN svc.aliCallbacks ELSE 0)]
           /\ IF notify THEN AppOnError ELSE AppQuiet

\* onaudioprocess of the pipeline of call p sends a frame on this.ws
AliAudio(p) ==
    /\ svc.pipes[p] = "live"
    /\ svc.aliConnected
    /\ svc.aliWs # 0
    /\ svc.socks[svc.aliWs].state = "open"
    /\ svc' = [svc EXCEPT !.last = SvcEvent("frame", svc.aliWs, 0)]
    /\ AppQuiet

\* onopen of the g-th session of geminiLive; a session that disconnect()
\* gave up while it was connecting is closed as soon as it exists
GemOpen(g) ==
    /\ svc.sessions[g].state = "connecting"
    /\ svc' = [svc EXCEPT !.gemConnected = TRUE,
                          !.sessions[g].state = IF svc.sessions[g].closeQueued
                                                THEN "closing" ELSE "open",
                          !.gemPipes[g] = "media",
                          !.last = SvcEvent("gemOpen", g, g)]
    /\ AppQuiet

\* getUserMedia of startAudioStream resolves
GemMediaGranted(g) ==
    /\ svc.gemPipes[g] = "media"
    /\ svc' = [svc EXCEPT !.gemPipes[g] = "live", !.gemProcessor = g,
                          !.last = SvcEvent("gemMedia", g, 0)]
    /\ AppQuiet

\* onmessage with an inputTranscription text
GemResult(g) ==
    /\ svc.sessions[g].state \in {"open", "closing"}
    /\ svc' = [svc EXCEPT !.last = SvcEvent("gemResult", g, g)]
    /\ AppTranscriptUpdate(SvcUtterance)

\* onerror of the session
GemError(g) ==
    /\ svc.sessions[g].state \in {"connecting", "open"}
    /\ svc' = [svc EXCEPT !.gemConnected = FALSE, !.sessions[g].state = "closing",
                          !.last = SvcEvent("gemError", g, g)]
    /\ AppOnError

\* onclose of the session
GemClose(g) ==
    /\ svc.sessions[g].state \in {"open", "closing"}
    /\ svc' = [svc EXCEPT !.gemConnected = FALSE, !.sessions[g].state = "closed",
                          !.last = SvcEvent("gemClose", g, 0)]
    /\ AppQuiet

\* onaudioprocess of geminiLive sends a frame to the session
GemAudio(p) ==
    /\ svc.gemPipes[p] = "live"
    /\ svc.gemConnected
    /\ svc.gemSession # 0
    /\ svc.sessions[svc.gemSession].state = "open"
    /\ svc' = [svc EXCEPT !.last = SvcEvent("gemFrame", svc.gemSession, 0)]
    /\ AppQuiet

SvcNext ==
    \/ \E f \in {"NONE", "INTERVIEWER", "TELEPROMPTER"} : HandleSetAiFeature(f)
    \/ \E c \in Calls : AliMediaGranted(c)
    \/ \E c \in Calls : AliMediaDenied(c)
    \/ \E c \in Calls : AliSockOpen(c)
    \/ \E c \in Calls : AliResult(c)
    \/ \E c \in Calls : AliTaskFailed(c)
    \/ \E c \in Calls : AliSockError(c)
    \/ \E c \in Calls : \E code \in CloseCodes : AliSockClose(c, code)
    \/ \E p \in Calls : AliAudio(p)
    \/ \E g \in Calls : GemOpen(g)
    \/ \E g \in Calls : GemMediaGranted(g)
    \/ \E g \in Calls : GemResult(g)
    \/ \E g \in Calls : GemError(g)
    \/ \E g \in Calls : GemClose(g)
    \/ \E p \in Calls : GemAudio(p)

SpecSvc == SvcInit /\ [][SvcNext]_vars

-----------------------------------------------------------------------------
(* Claims *)

SegCount == Len(segments(teleprompterScript))
TokenTables == segmentTokensMap(teleprompterScript)
HasActiveSegment == activeSegmentIndex \in 0..(SegCount - 1)
ActiveTokenCount == Len(TokenTables[activeSegmentIndex + 1])
AutoTimers == {t \in timers : t.kind = "auto"}
ResetKinds == {"feature", "script", "error"}

\* C1: in every reachable state 0 <= activeSegmentIndex <= segments.length.
C1_IndexInRange == 0 <= activeSegmentIndex /\ activeSegmentIndex <= SegCount

\* C2: whenever there is an active segment, 0 <= matchedTokenCount <= the
\* number of tokens of the active segment.
C2_MatchedInRange ==
    HasActiveSegment => 0 <= matchedWordCount /\ matchedWordCount <= ActiveTokenCount

\* C3: an advance or retreat made while an auto-advance timer is pending
\* cancels it: after the navigation no auto-advance timer is live.
C3_NavigationCancelsTimer ==
    ev.kind \in {"click", "wheel"} /\ ev.nav \in {"next", "prev"} => AutoTimers = {}

\* C4 as claimed: a longer transcript delta that arrives while an
\* auto-advance timer is pending cancels that timer.
C4_DeltaCancelsTimer ==
    [][\A t \in timers :
        (t.kind = "auto" /\ ev'.kind = "transcript" /\ ev'.effect \notin {"off", "stale"})
        => t \notin timers']_vars

\* C4 as amended: a longer transcript delta that arrives while an
\* auto-advance timer is pending cancels that timer, and empties the timer
\* slot, exactly when the delta makes a jump; any other delta leaves the
\* timer live and in the slot.
C4_DeltaCancelsTimerOnlyOnJump ==
    [][\A t \in timers :
        (t.kind = "auto" /\ ev'.kind = "transcript" /\ ev'.effect \notin {"off", "stale"})
        => IF ev'.effect = "jump"
           THEN t \notin timers' /\ scrollTimeoutRef' = 0
           ELSE t \in timers' /\ scrollTimeoutRef' = t.id]_vars

\* a delta has just jumped out of a completed segment whose auto-advance was
\* pending: the timer is gone
C4_Witness ==
    /\ ev.kind = "transcript" /\ ev.effect = "jump" /\ ev.refBefore # 0
    /\ ev.m >= Len(TokenTables[ev.k + 1]) /\ Len(TokenTables[ev.k + 1]) > 0
    /\ timers = {}

\* C5: a feature toggle or a script change discards every pending
\* auto-advance timer.
C5_ResetDiscardsTimers == ev.kind \in ResetKinds => AutoTimers = {}

\* C6: a script change or a feature toggle sets the alignment state to (0, 0, 0).
C6_ResetToZero ==
    ev.kind \in ResetKinds =>
        /\ activeSegmentIndex = 0
        /\ matchedWordCount = 0
        /\ lastTranscriptLengthRef = 0

\* C7: after a delta processed without a jump, if matchedTokenCount >=
\* tokenCount of the active segment k (a segment without tokens included), an
\* auto-advance for k is pending; and when an auto-advance armed for k fires
\* while k is still the active segment, the state becomes
\* (min(k+1, segments.length), 0).
C7_CompletedSegmentAutoAdvances ==
    [][/\ (/\ ev'.kind = "transcript" /\ ev'.effect = "done"
           /\ HasActiveSegment'
           /\ matchedWordCount' >= ActiveTokenCount')
          => \E t \in timers' : t.kind = "auto" /\ t.seg = activeSegmentIndex'
       /\ \A t \in timers :
            (/\ ev'.kind = "timer" /\ t.kind = "auto" /\ t \notin timers'
             /\ t.seg = activeSegmentIndex)
            => /\ activeSegmentIndex' = Min(activeSegmentIndex + 1, SegCount)
               /\ matchedWordCount' = 0]_vars

\* C8: when a delta has matched all the tokens of the last segment an
\* auto-advance is pending; an auto-advance that fires on the completed last
\* segment leaves the state (segments.length, 0); and in the terminal state a
\* transcript delta changes neither activeSegmentIndex nor matchedTokenCount.
C8_LastSegmentReachesTerminal ==
    [][/\ (/\ ev'.kind = "transcript" /\ ev'.effect = "done"
           /\ HasActiveSegment' /\ activeSegmentIndex' = SegCount' - 1
           /\ ActiveTokenCount' > 0
           /\ matchedWordCount' >= ActiveTokenCount')
          => \E t \in timers' : t.kind = "auto" /\ t.seg = activeSegmentIndex'
       /\ \A t \in timers :
            (/\ ev'.kind = "timer" /\ t.kind = "auto" /\ t \notin timers'
             /\ HasActiveSegment /\ activeSegmentIndex = SegCount - 1
             /\ ActiveTokenCount > 0
             /\ matchedWordCount >= ActiveTokenCount)
            => activeSegmentIndex' = SegCount /\ matchedWordCount' = 0
       /\ (activeSegmentIndex = SegCount /\ ev'.kind = "transcript")
          => /\ activeSegmentIndex' = activeSegmentIndex
             /\ matchedWordCount' = matchedWordCount]_vars

\* C9: after a jump in the middle of a delta the spoken tokens that follow
\* the jumping token are matched against the new active segment: the state is
\* the one the matching loop reaches from (k+1, j+1) on those tokens.
C9_RestMatchedAfterJump ==
    ev.kind = "transcript" /\ ev.effect = "jump" =>
        LET r == MatchLoop(ev.rest, ev.j + 1, ev.k + 1, TokenTables)
        IN  IF r.jumped
            THEN activeSegmentIndex = ev.k + 2 /\ matchedWordCount = r.j + 1
            ELSE activeSegmentIndex = ev.k + 1 /\ matchedWordCount = r.cmi

\* C10: a jump on a hit at offset j changes the state from (k, m) to exactly
\* (k+1, j+1) and leaves no auto-advance timer pending.
C10_JumpTransition ==
    ev.effect = "jump" =>
        /\ activeSegmentIndex = ev.k + 1
        /\ matchedWordCount = ev.j + 1
        /\ AutoTimers = {}

\* C11: a jump out of segment k happens only if the spoken token has no
\* local match in segment k, segment k+1 exists, the token equals, case
\* aside, one of the first 3 tokens of segment k+1, and
\* 10 * matchedTokenCount > 6 * tokenCount of segment k; and the jump ends in
\* segment k+1.
C11_JumpOnlyWhenGated ==
    ev.effect = "jump" =>
        /\ ev.k \in 0..(SegCount - 2)
        /\ LET cur == TokenTables[ev.k + 1]
               nxt == TokenTables[ev.k + 2]
               tok == toLowerCase(ev.tok)
           IN  /\ \A o \in 0..LookaheadMaxOffset :
                    ev.cmi + o < Len(cur) => toLowerCase(cur[ev.cmi + o + 1]) # tok
               /\ \E j \in 1..Min(3, Len(nxt)) : toLowerCase(nxt[j]) = tok
               /\ 10 * ev.cmi > 6 * Len(cur)
        /\ activeSegmentIndex = ev.k + 1


\* C12: advance and retreat move activeSegmentIndex by +1 and -1, clamped to
\* 0..segments.length-1; matchedTokenCount becomes 0 exactly when the index
\* changes; and a click that retreats at segment 0 or advances at the last
\* segment leaves the whole state unchanged.
C12_NavigationClamped ==
    [][(ev'.kind \in {"click", "wheel"} /\ ev'.nav \in {"next", "prev"}) =>
        LET target == IF ev'.nav = "next" THEN activeSegmentIndex + 1
                      ELSE activeSegmentIndex - 1
        IN  /\ activeSegmentIndex' = Max(0, Min(target, SegCount - 1))
            /\ matchedWordCount' =
                 IF activeSegmentIndex' # activeSegmentIndex THEN 0 ELSE matchedWordCount
            /\ (/\ ev'.kind = "click"
                /\ \/ ev'.nav = "prev" /\ activeSegmentIndex = 0
                   \/ ev'.nav = "next" /\ activeSegmentIndex = SegCount - 1)
               => UNCHANGED <<activeSegmentIndex, matchedWordCount, lastTranscriptLengthRef,
                              scrollTimeoutRef, timers, transcript, teleprompterScript>>]_vars

\* C13: between two resets consumedTranscriptLength never decreases: every
\* transcript update, timer firing and navigation leaves it at least as
\* large as it was.
C13_CursorMonotonic ==
    [][ev'.kind \notin ResetKinds => lastTranscriptLengthRef' >= lastTranscriptLengthRef]_vars

\* a transcript update has moved a cursor that was already positive
C13_Witness ==
    /\ ev.kind = "transcript" /\ ev.cursor > 0
    /\ lastTranscriptLengthRef > ev.cursor

\* C14: a transcript update that is not longer than consumedTranscriptLength
\* is a no-op: activeSegmentIndex, matchedTokenCount, consumedTranscriptLength,
\* the timer slot and the pending timers are unchanged.
C14_ShortUpdateIsNoOp ==
    [][(ev'.kind = "transcript" /\ Len(transcript') <= lastTranscriptLengthRef)
       => UNCHANGED <<activeSegmentIndex, matchedWordCount, lastTranscriptLengthRef,
                      scrollTimeoutRef, timers>>]_vars

\* a transcript shorter than the cursor has been delivered while a matched
\* count was standing and an auto-advance timer was pending
C14_Witness ==
    /\ ev.kind = "transcript" /\ ev.effect = "stale"
    /\ Len(transcript) < lastTranscriptLengthRef
    /\ matchedWordCount > 0
    /\ AutoTimers # {}

\* C15: two runs on the same script and the same sequence of transcript
\* deliveries and advance/retreat calls end, once no timer is pending, in the
\* same (activeSegmentIndex, matchedTokenCount), whenever the timers fired.
C15_DeterministicInInputs ==
    (run.first # <<>> /\ run.todo = <<>> /\ timers = {})
        => <<activeSegmentIndex, matchedWordCount>> = run.first

HelloPlan == <<Deliver(HelloFirst), Deliver(HelloSecond)>>
HelloRunOver == teleprompterScript = ScriptHello /\ run.all = HelloPlan /\ run.todo = <<>>

\* C16 as claimed: with script "Hello world. Testing one two." and the
\* transcript delivered as "Hello world" then "Hello world. Testing", the
\* engine ends in (1, 1) and exactly one jump has occurred, wherever the
\* timer fired.
C16_HelloEndsWithOneJump ==
    HelloRunOver =>
        /\ activeSegmentIndex = 1
        /\ matchedWordCount = 1
        /\ run.jumps = 1

\* C16 as amended: the engine ends in (1, 1) with no timer pending wherever
\* the timer fired; exactly one jump has occurred when the auto-advance timer
\* was still pending at the second delivery, and none when it had fired
\* before it.
C16_HelloEndsInOneOne ==
    HelloRunOver =>
        /\ activeSegmentIndex = 1
        /\ matchedWordCount = 1
        /\ timers = {}
        /\ ev.kind = "transcript"
        /\ run.jumps = IF ev.refBefore # 0 THEN 1 ELSE 0

\* the run is over and the timer had fired between the two deliveries
C16_Witness ==
    /\ HelloRunOver
    /\ ev.kind = "transcript" /\ ev.refBefore = 0 /\ ev.k = 1
    /\ activeSegmentIndex = 1 /\ matchedWordCount = 1

CJKRunOver ==
    teleprompterScript = ScriptCJK /\ run.all = <<Deliver(TranscriptCJK)>> /\ run.todo = <<>>

\* C17: with the two-segment CJK script and the transcript of the first
\* segment's characters followed by U+4ECA U+5929 delivered in full, every
\* token of segment 0 is matched first, then one jump moves the engine into
\* segment 1, and the spoken word U+4ECA U+5929 (the first two tokens of
\* segment 1) is counted as matched there.
C17_CJKRunJumps ==
    CJKRunOver =>
        /\ ev.kind = "transcript" /\ ev.effect = "jump"
        /\ ev.cmi = Len(TokenTables[1])
        /\ run.jumps = 1
        /\ activeSegmentIndex = 1
        /\ matchedWordCount = 2

BlankScript == \A i \in DOMAIN teleprompterScript : teleprompterScript[i] \in WhitespaceChars

\* C18: an empty or whitespace-only script has zero segments, and from the
\* terminal state (0, 0) of such a script every transcript update, timer
\* firing, advance and retreat leaves activeSegmentIndex = 0 and
\* matchedTokenCount = 0.
C18_BlankScriptStaysTerminal ==
    [][BlankScript =>
        /\ SegCount = 0
        /\ (/\ activeSegmentIndex = 0 /\ matchedWordCount = 0
            /\ ev'.kind \in {"transcript", "timer", "click", "wheel"})
           => (activeSegmentIndex' = 0 /\ matchedWordCount' = 0)]_vars

RECURSIVE Concat(_)
Concat(ss) == IF ss = <<>> THEN <<>> ELSE Head(ss) \o Concat(Tail(ss))

IsNotWhitespace(c) == c \notin WhitespaceChars

\* C19: the concatenation of the segments of the script holds every
\* non-whitespace character of the script exactly once and in the original
\* order.
C19_SegmentsKeepCharacters ==
    SelectSeq(Concat(segments(teleprompterScript)), IsNotWhitespace)
        = SelectSeq(teleprompterScript, IsNotWhitespace)

\* the tokens the claim describes: a token starts at every CJK character and
\* at every alphanumeric character that does not follow one, and runs to the
\* end of the maximal alphanumeric run
TokenStartsAt(text, i) ==
    \/ text[i] \in CJKChars
    \/ text[i] \in AlnumChars /\ (i = 1 \/ text[i - 1] \notin AlnumChars)

RunEnd(text, i) ==
    CHOOSE j \in i..Len(text) :
        /\ \A k \in i..j : text[k] \in AlnumChars
        /\ (j = Len(text) \/ text[j + 1] \notin AlnumChars)

TokenAt(text, i) ==
    IF text[i] \in CJKChars THEN <<text[i]>> ELSE SubSeq(text, i, RunEnd(text, i))

RECURSIVE TokensFrom(_, _)
TokensFrom(text, i) ==
    IF i > Len(text) THEN <<>>
    ELSE (IF TokenStartsAt(text, i) THEN <<TokenAt(text, i)>> ELSE <<>>)
         \o TokensFrom(text, i + 1)

TokenizedTexts ==
    {teleprompterScript, transcript}
        \cup {segments(teleprompterScript)[i] : i \in 1..SegCount}

\* C20: the tokenizer returns, from left to right, one token per maximal run
\* of alphanumeric characters (a-z, A-Z, 0-9) and one token per CJK character,
\* and nothing else: no other character is part of a token or gives one.
C20_TokensAreRunsAndCharacters ==
    \A text \in TokenizedTexts : parseSegmentToTokens(text) = TokensFrom(text, 1)

\* the script has been read out and the transcript held a run of two
\* alphanumeric characters, a CJK character and a mark that gives no token
C20_Witness ==
    /\ ev.kind = "transcript"
    /\ \E i \in DOMAIN transcript : transcript[i] \in {".", "|", "uE9"}
    /\ \E i \in DOMAIN transcript : transcript[i] \in CJKChars
    /\ \E tk \in {parseSegmentToTokens(transcript)[i] :
                    i \in 1..Len(parseSegmentToTokens(transcript))} : Len(tk) = 2
    /\ Len(parseSegmentToTokens(transcript)) = 2

WheelTimers == {t \in timers : t.kind = "wheel"}

\* C21: the wheel throttle and the auto-advance debounce are independent: a
\* delta that completes the active segment schedules its auto-advance also
\* while a wheel throttle is pending; a wheel gesture made while only an
\* auto-advance is pending is not dropped; and a jump leaves a pending wheel
\* throttle in place.
C21_WheelDebounceIndependent ==
    [][/\ (/\ ev'.kind = "transcript" /\ ev'.effect = "done"
           /\ WheelTimers # {}
           /\ HasActiveSegment' /\ ActiveTokenCount' > 0
           /\ matchedWordCount' >= ActiveTokenCount')
          => \E t \in timers' : t.kind = "auto" /\ t.seg = activeSegmentIndex'
       /\ (ev'.kind = "wheel" /\ WheelTimers = {} /\ AutoTimers # {})
          => ev'.nav # "throttled"
       /\ ev'.effect = "jump" => \A t \in WheelTimers : t \in timers']_vars

\* C22: every recognizer update makes the transcript strictly longer and
\* keeps what was delivered before as its prefix; a feature toggle empties
\* it; and nothing else changes it.
C22_TranscriptGrows ==
    [][/\ ev'.kind = "transcript"
          => /\ Len(transcript') > Len(transcript)
             /\ SubSeq(transcript', 1, Len(transcript)) = transcript
       /\ ev'.kind = "feature" => transcript' = <<>>
       /\ ev'.kind \notin {"transcript", "feature"} => transcript' = transcript]_vars

\* a recognizer update has extended a transcript that already held an
\* utterance: it is longer than any single utterance
C22_Witness ==
    /\ ev.kind = "transcript"
    /\ \A u \in Utterances : Len(transcript) > Len(u) + 1

\* the spoken tokens of the last transcript update
SpokenTokens == parseSegmentToTokens(Slice(transcript, ev.cursor))

\* C23: a spoken token is matched locally against at most 4 script tokens of
\* the active segment, those at positions matchedTokenCount ..
\* matchedTokenCount + 3: after a delta of one token that does not jump,
\* matchedTokenCount is the position + 1 of the first of them that equals the
\* token, case aside, and is unchanged when none of them does.
C23_LocalWindowOfFour ==
    (/\ ev.kind = "transcript" /\ ev.effect = "done"
     /\ Len(SpokenTokens) = 1)
    => LET cur == TokenTables[ev.k + 1]
           tok == toLowerCase(SpokenTokens[1])
           hits == {p \in (ev.m + 1)..Min(ev.m + 4, Len(cur)) :
                       toLowerCase(cur[p]) = tok}
       IN  /\ activeSegmentIndex = ev.k
           /\ matchedWordCount =
                IF hits = {} THEN ev.m ELSE CHOOSE p \in hits : \A q \in hits : p <= q

\* no script token of the window of 4 at (k, m) of the last event equals tok
NoLocalMatch(tok) ==
    \A p \in (ev.m + 1)..Min(ev.m + 4, Len(TokenTables[ev.k + 1])) :
        toLowerCase(TokenTables[ev.k + 1][p]) # toLowerCase(tok)

\* C24: after a delta whose spoken tokens have neither a local match nor a
\* jump hit, activeSegmentIndex and matchedTokenCount are what they were and
\* the timer slot is what it was: no timer was armed or cancelled.
C24_MissChangesNothing ==
    (/\ ev.kind = "transcript" /\ ev.effect = "done"
     /\ SpokenTokens # <<>>
     /\ \A i \in 1..Len(SpokenTokens) : NoLocalMatch(SpokenTokens[i]))
    => /\ activeSegmentIndex = ev.k
       /\ matchedWordCount = ev.m
       /\ scrollTimeoutRef = ev.refBefore

\* C25: advance and retreat leave consumedTranscriptLength unchanged,
\* whether or not the index changes.
C25_NavigationKeepsCursor ==
    [][(ev'.kind \in {"click", "wheel"} /\ ev'.nav \in {"next", "prev"})
       => lastTranscriptLengthRef' = lastTranscriptLengthRef]_vars

\* an advance has moved the index while part of the transcript was consumed
C25_Witness ==
    /\ ev.kind = "click" /\ ev.nav = "next"
    /\ activeSegmentIndex = ev.k + 1
    /\ ev.cursor > 0 /\ lastTranscriptLengthRef = ev.cursor

\* C26: while the teleprompter is on, after every transcript update longer
\* than the cursor consumedTranscriptLength equals the length of that
\* transcript, whatever exit the effect takes (no token in the delta, no
\* match, end of the script).
C26_CursorFollowsTranscript ==
    [][(/\ ev'.kind = "transcript" /\ aiFeature = "TELEPROMPTER"
        /\ Len(transcript') > lastTranscriptLengthRef)
       => lastTranscriptLengthRef' = Len(transcript')]_vars

\* a delta with tokens has arrived in the terminal state of a script with
\* segments, and the cursor has moved to the end of the transcript
C26_Witness ==
    /\ ev.kind = "transcript" /\ ev.effect = "end"
    /\ SegCount > 0 /\ ev.k = SegCount
    /\ ev.cursor > 0
    /\ lastTranscriptLengthRef = Len(transcript)

\* the spoken tokens of the last run of the effect: a reset re-reads the
\* whole transcript
LastSpoken ==
    parseSegmentToTokens(Slice(transcript, IF ev.kind \in ResetKinds THEN 0 ELSE ev.cursor))

LastReads == EffectReads(LastSpoken, ev.m, ev.k, TokenTables)

\* C27: every token the local lookahead and the jump window read lies at an
\* index 0 .. length-1 of the token table of a segment 0 .. segments.length-1,
\* and the only token table read besides the active one is that of an
\* existing next segment.
C27_ReadsInRange ==
    ev.effect \in {"jump", "done"} =>
        \A rd \in LastReads :
            /\ rd.seg \in 0..(SegCount - 1)
            /\ rd.what = "token" => rd.idx \in 0..(Len(TokenTables[rd.seg + 1]) - 1)

\* the lookahead was cut by the end of a token table shorter than the
\* window, and the jump window by a next segment of fewer than 3 tokens
C27_Witness ==
    /\ ev.effect = "done"
    /\ \E rd \in LastReads :
          rd.what = "token" /\ rd.seg = ev.k /\ Len(TokenTables[ev.k + 1]) < ev.m + 5
    /\ \E rd \in LastReads :
          rd.what = "token" /\ rd.seg = ev.k + 1 /\ Len(TokenTables[ev.k + 2]) < 3

IsKeptBySplit(c) == c \notin WhitespaceChars \cup {"|"}

\* C28: every segment of the script is non-empty, neither starts nor ends
\* with whitespace, and holds a terminal mark only as its last character;
\* the segments follow the order of the script.
C28_SegmentsWellFormed ==
    LET segs == segments(teleprompterScript)
    IN  /\ \A i \in DOMAIN segs :
              /\ segs[i] # <<>>
              /\ segs[i][1] \notin WhitespaceChars
              /\ segs[i][Len(segs[i])] \notin WhitespaceChars
              /\ \A p \in 1..(Len(segs[i]) - 1) : segs[i][p] \notin TerminalChars
        /\ SelectSeq(Concat(segs), IsKeptBySplit)
               = SelectSeq(teleprompterScript, IsKeptBySplit)

\* the panel shows a script with whitespace at its start and after a terminal
\* mark, cut into a segment that ends with the mark and one without a mark
C28_Witness ==
    LET segs == segments(teleprompterScript)
    IN  /\ Len(segs) = 2
        /\ teleprompterScript[1] \in WhitespaceChars
        /\ aiFeature = "TELEPROMPTER"
        /\ segs[1][Len(segs[1])] \in TerminalChars
        /\ \E p \in 2..Len(teleprompterScript) :
              teleprompterScript[p] \in WhitespaceChars
                  /\ teleprompterScript[p - 1] \in TerminalChars
        /\ \A p \in DOMAIN segs[2] : segs[2][p] \notin TerminalChars

RECURSIVE JoinSpace(_)
JoinSpace(ss) ==
    IF ss = <<>> THEN <<>>
    ELSE IF Len(ss) = 1 THEN Head(ss)
    ELSE Head(ss) \o <<" ">> \o JoinSpace(Tail(ss))

IsCJKChar(c) == c \in CJKChars

IsCJKToken(t) == t[1] \in CJKChars

OneCharToken(c) == <<c>>

\* no two neighbouring tokens are both alphanumeric runs
NoAdjacentRuns(toks) ==
    \A i \in 1..(Len(toks) - 1) : IsCJKToken(toks[i]) \/ IsCJKToken(toks[i + 1])

\* C29 as stated, for the texts without an ideographic character: tokenizing
\* the concatenation of the tokens of the text gives the tokens of the text.
C29_ConcatenationRetokenizes ==
    \A text \in TokenizedTexts :
        (\A p \in DOMAIN text : text[p] \notin CJKChars) =>
            parseSegmentToTokens(Concat(parseSegmentToTokens(text)))
                = parseSegmentToTokens(text)

\* C29, amended: every token tokenizes to itself alone, the tokens joined by
\* single spaces tokenize to the same token sequence, their plain
\* concatenation does so when no two alphanumeric runs are neighbours, and
\* the ideographic tokens are the ideographic characters of the text, one
\* token per character, in order.
C29_TokensRetokenize ==
    \A text \in TokenizedTexts :
        LET toks == parseSegmentToTokens(text)
        IN  /\ \A i \in DOMAIN toks : parseSegmentToTokens(toks[i]) = <<toks[i]>>
            /\ parseSegmentToTokens(JoinSpace(toks)) = toks
            /\ NoAdjacentRuns(toks) => parseSegmentToTokens(Concat(toks)) = toks
            /\ SelectSeq(toks, IsCJKToken)
                   = [i \in DOMAIN SelectSeq(text, IsCJKChar) |->
                         OneCharToken(SelectSeq(text, IsCJKChar)[i])]

\* the script read out gave an alphanumeric run, an ideographic character
\* and another run
C29_Witness ==
    LET toks == parseSegmentToTokens(transcript)
    IN  /\ ev.kind = "transcript"
        /\ Len(toks) = 3
        /\ toks[1][1] \in AlnumChars
        /\ toks[2][1] \in CJKChars
        /\ toks[3][1] \in AlnumChars

\* C30: a navigation to the next line never decreases activeSegmentIndex and
\* a navigation to the previous line never increases it, from every
\* reachable state, the state past the last segment included.
C30_NavigationMonotonic ==
    [][/\ (ev'.kind \in {"click", "wheel"} /\ ev'.nav = "next")
            => activeSegmentIndex' >= activeSegmentIndex
       /\ (ev'.kind \in {"click", "wheel"} /\ ev'.nav = "prev")
            => activeSegmentIndex' <= activeSegmentIndex]_vars

\* C31: when every token of the script has been delivered in script order
\* and no timer is left to fire, the panel is past the last segment; under
\* the fair specification this is what reaching activeSegmentIndex =
\* segments.length in the end requires, as nothing happens after such a state.
C31_ReadingReachesEnd ==
    (run.todo = <<>> /\ timers = {}) => activeSegmentIndex = SegCount

\* C32: a transcript update, a timer firing and a navigation each change
\* activeSegmentIndex by at most 1, and a transcript update or a timer firing
\* never decreases it.
C32_IndexStepsByOne ==
    [][/\ ev'.kind \in {"transcript", "timer", "click", "wheel"}
            => /\ activeSegmentIndex' - activeSegmentIndex <= 1
               /\ activeSegmentIndex - activeSegmentIndex' <= 1
       /\ ev'.kind \in {"transcript", "timer"}
            => activeSegmentIndex' >= activeSegmentIndex]_vars

\* C33: at most one timer of the panel is live, and scrollTimeoutRef holds
\* its id exactly while it is live (it is empty when no timer is live); a
\* timer is armed only from an empty slot, and a timer that fires or is
\* cancelled leaves the slot empty.
C33_OneTimerInSlot ==
    /\ [](/\ Cardinality(timers) <= 1
          /\ scrollTimeoutRef # 0 <=> timers # {}
          /\ \A t \in timers : t.id = scrollTimeoutRef)
    /\ [][/\ timers' \ timers # {} => scrollTimeoutRef = 0
          /\ timers \ timers' # {} => scrollTimeoutRef' = 0]_vars

\* a jump has cancelled the pending timer
C33_Witness ==
    /\ ev.kind = "transcript"
    /\ ev.effect = "jump"
    /\ ev.refBefore # 0
    /\ timers = {}
    /\ scrollTimeoutRef = 0

AliyunOpen == \E c \in Calls : svc.socks[c].state = "open"

GeminiOpen == \E g \in Calls : svc.sessions[g].state = "open"

\* C34: never are a socket of aliyunAsr and a session of geminiLive open
\* together, no socket of aliyunAsr is open while the feature is INTERVIEWER
\* and no session of geminiLive while it is TELEPROMPTER.
C34_OneServiceForFeature ==
    /\ ~(AliyunOpen /\ GeminiOpen)
    /\ aiFeature = "INTERVIEWER" => ~AliyunOpen
    /\ aiFeature = "TELEPROMPTER" => ~GeminiOpen

\* C35: while aiFeature is NONE no socket and no session is open and no
\* service has isConnected set, and a step that starts and ends with NONE
\* neither appends to the transcript nor sends an audio frame.
C35_NoneMeansSilent ==
    /\ [](aiFeature = "NONE" =>
            /\ ~AliyunOpen /\ ~GeminiOpen
            /\ ~svc.aliConnected /\ ~svc.gemConnected)
    /\ [][(aiFeature = "NONE" /\ aiFeature' = "NONE") =>
            /\ Len(transcript') <= Len(transcript)
            /\ svc'.last.kind \notin {"frame", "gemFrame"}]_vars

\* C36: an audio frame goes to a socket of aliyunAsr on which
\* StartTranscription was sent, which is open, with isConnected set, and not
\* after a disconnect() that no connect() followed; StopTranscription is sent
\* on an open socket and at most once per socket.
C36_FramesWithinSession ==
    /\ [][svc'.last.kind = "frame" =>
            LET w == svc'.last.id
            IN  /\ svc.socks[w].start # 0
                /\ svc.socks[w].state = "open"
                /\ svc.aliConnected
                /\ ~svc.aliIdle]_vars
    /\ [][\A c \in Calls :
            svc'.socks[c].stops > svc.socks[c].stops =>
                svc.socks[c].state = "open" /\ svc.socks[c].stops = 0]_vars

\* C37: an event of a socket of aliyunAsr or of a session of geminiLive that
\* a later connect() has superseded leaves isConnected of the service as it
\* was and invokes no callback of the later connect().
C37_OldEventsAreIgnored ==
    [][/\ (svc'.last.kind \in {"sockClose", "sockError", "result", "taskFailed"}
           /\ svc'.last.id < svc.aliCalls)
            => /\ svc'.aliConnected = svc.aliConnected
               /\ svc'.last.callbacks # svc.aliCalls
       /\ (svc'.last.kind \in {"gemClose", "gemError"} /\ svc'.last.id < svc.gemCalls)
            => /\ svc'.gemConnected = svc.gemConnected
               /\ svc'.last.callbacks # svc.gemCalls]_vars

\* C38: the StopTranscription sent on a socket carries the task_id of the
\* StartTranscription sent on it.
C38_StopCarriesStartTaskId ==
    \A c \in Calls : svc.socks[c].stop # 0 => svc.socks[c].stop = svc.socks[c].start

====
